---- MODULE Spec2Model ----
(***************************************************************************)
(* Crime-Scene-Evidence-Classification: the ensemble detector              *)
(* (ensemble_model.py) and the upload/review page (ui.py).                 *)
(*                                                                         *)
(* Units.  A confidence is a whole number of basis points (1/10000), so    *)
(* 0.30 is 3000.  A box coordinate returned by a model is a float; it is   *)
(* kept in half pixels, so that int() has a fraction to drop.  Everything  *)
(* after int() is in whole pixels.                                         *)
(***************************************************************************)
EXTENDS Integers, Sequences, FiniteSets, TLC

VARIABLES
    fs,             \* the file system: path -> content
    detector,       \* the EnsembleEvidenceDetector object, or None
    font,           \* the metrics cv2.getTextSize works from
    pc,             \* position of the script that drives the detector
    arg,            \* the argument of the call under way
    ret,            \* what the last _analyze_image returned
    calls,          \* the _analyze_image calls made: path, and whether it decoded
    uploaded_file,  \* the page's st.file_uploader value
    session_state   \* the page's st.session_state

vars == <<fs, detector, font, pc, arg, ret, calls, uploaded_file, session_state>>

None == [kind |-> "None"]

Max(a, b) == IF a >= b THEN a ELSE b
Min(a, b) == IF a <= b THEN a ELSE b

(***************************************************************************)
(* Paths.  A path is its directory components, the stem of its last        *)
(* component and that component's extension.                               *)
(***************************************************************************)
Dir(s) == [dir |-> <<>>, stem |-> s, ext |-> ""]
FileName(stem, ext) == [stem |-> stem, ext |-> ext]

\* os.path.join(d, name), d a path and name a single component
join(d, name) == [dir |-> d.dir \o <<d.stem \o d.ext>>, stem |-> name.stem, ext |-> name.ext]

\* os.path.splitext(os.path.basename(p))[0]
BaseName(p) == p.stem

\* glob.glob(pattern) for a pattern that holds no wildcard: the path itself
\* when it exists, nothing otherwise
glob(pattern, files) == IF pattern \in DOMAIN files THEN <<pattern>> ELSE <<>>

\* cv2.imread: the decoded image, or None for anything that is no image file
imread(p, files) ==
    IF p \in DOMAIN files /\ files[p].kind = "image" THEN files[p] ELSE None

\* the config module: where the page and the detector keep their files
OUTPUT_DIR == Dir("output")
INPUT_DIR == join(OUTPUT_DIR, FileName("input", ""))
CSV_DIR == join(OUTPUT_DIR, FileName("evidence_logs", ""))
VISUALS_DIR == join(OUTPUT_DIR, FileName("visuals", ""))

(***************************************************************************)
(* The detector's configuration.                                           *)
(***************************************************************************)
VISUAL_CUTOFF == 3000

std_classes ==
    (0 :> "Person") @@
    (24 :> "Backpack") @@ (26 :> "Handbag") @@ (28 :> "Suitcase") @@
    (39 :> "Bottle") @@ (40 :> "Wine Glass") @@ (41 :> "Cup") @@ (45 :> "Bowl") @@
    (43 :> "Knife") @@ (76 :> "Scissors") @@
    (67 :> "Cell Phone") @@ (73 :> "Laptop") @@ (63 :> "TV/Monitor") @@
    (66 :> "Keyboard") @@ (64 :> "Mouse")

cust_classes == (0 :> "Gun") @@ (1 :> "Blood Stain")

\* `word in label` for the labels above and the words the code looks for
Contains(label, word) ==
    <<label, word>> \in { <<"Blood Stain", "Blood">>, <<"Gun", "Gun">>,
                          <<"Knife", "Knife">>, <<"Person", "Person">>,
                          <<"Cell Phone", "Phone">>, <<"Laptop", "Laptop">> }

\* EnsembleEvidenceDetector.__init__: the custom model is loaded only when its
\* weights file exists
NewDetector(custom_weights, files) ==
    [kind |-> "detector", model_custom |-> custom_weights \in DOMAIN files]

(***************************************************************************)
(* Passes 1 and 2: the detections of the target classes, in each model's   *)
(* order.  A detection is [cls, conf, xyxy]; cls is the integer the model  *)
(* stores as a float.                                                      *)
(***************************************************************************)
RECURSIVE PassStandardAll(_)
PassStandardAll(boxes) ==
    IF boxes = <<>> THEN <<>>
    ELSE LET box == Head(boxes)
             cls_id == box.cls
         IN  << [Source |-> "Standard_Model",
                 Label |-> IF cls_id \in DOMAIN std_classes
                           THEN std_classes[cls_id] ELSE "Unknown",
                 Conf |-> box.conf,
                 Box |-> box.xyxy] >> \o PassStandardAll(Tail(boxes))

RECURSIVE PassStandard(_)
PassStandard(boxes) ==
    IF boxes = <<>> THEN <<>>
    ELSE LET box == Head(boxes)
             cls_id == box.cls
         IN  (IF cls_id \in DOMAIN std_classes
              THEN << [Source |-> "Standard_Model",
                       Label |-> std_classes[cls_id],
                       Conf |-> box.conf,
                       Box |-> box.xyxy] >>
              ELSE <<>>) \o PassStandard(Tail(boxes))

RECURSIVE PassCustomBoxes(_)
PassCustomBoxes(boxes) ==
    IF boxes = <<>> THEN <<>>
    ELSE LET box == Head(boxes)
             cls_id == box.cls
         IN  (IF cls_id \in DOMAIN cust_classes
              THEN << [Source |-> "Custom_Model",
                       Label |-> cust_classes[cls_id],
                       Conf |-> box.conf,
                       Box |-> box.xyxy] >>
              ELSE <<>>) \o PassCustomBoxes(Tail(boxes))

PassCustomAlways(model_custom, boxes) == PassCustomBoxes(boxes)
PassCustom(model_custom, boxes) ==
    IF model_custom THEN PassCustomBoxes(boxes) ELSE <<>>

(***************************************************************************)
(* Pass 3: one master_log item.                                            *)
(***************************************************************************)
\* int() of a float held in half pixels: the fraction is dropped, towards zero
ToInt(h) == IF h >= 0 THEN h \div 2 ELSE -((-h) \div 2)

\* x1, y1, x2, y2 = map(int, item['Box']) and the clamp that follows
Clamp(box, img_w, img_h) ==
    << Max(0, ToInt(box[1])), Max(0, ToInt(box[2])),
       Min(img_w, ToInt(box[3])), Min(img_h, ToInt(box[4])) >>

\* conf > self.VISUAL_CUTOFF
AboveCutoffInclusive(conf) == conf >= VISUAL_CUTOFF
AboveCutoff(conf) == conf > VISUAL_CUTOFF

Digits2(n) == IF n < 10 THEN "0" \o ToString(n) ELSE ToString(n)

\* f"{conf:.2%}"
ConfidenceText(conf) == ToString(conf \div 100) \o "." \o Digits2(conf % 100) \o "%"

\* f"{conf:.0%}": the nearest whole percent, a half going to the even one
PercentText(conf) ==
    LET q == conf \div 100
        r == conf % 100
        up == r > 50 \/ (r = 50 /\ q % 2 = 1)
    IN  ToString(IF up THEN q + 1 ELSE q) \o "%"

\* cv2.getTextSize(lbl, FONT_HERSHEY_SIMPLEX, 1, 2): a width that grows with
\* the text and one height for the face
getTextSize(lbl, f) == [text_w |-> f.char_w * Len(lbl), text_h |-> f.text_h]

\* the csv_data row of an item
CsvRow(item, base_name, img_w, img_h) ==
    [ Image |-> base_name,
      Model_Source |-> item.Source,
      Evidence_Type |-> item.Label,
      Confidence_Score |-> item.Conf,
      Confidence_Text |-> ConfidenceText(item.Conf),
      Visualized |-> IF AboveCutoff(item.Conf) THEN "YES" ELSE "NO",
      Coords |-> Clamp(item.Box, img_w, img_h) ]

\* the colour of an item's box
Color(label) ==
    IF Contains(label, "Blood") THEN "biohazard"
    ELSE IF Contains(label, "Gun") THEN "weapon_gun"
    ELSE IF Contains(label, "Knife") THEN "weapon_knife"
    ELSE IF Contains(label, "Person") THEN "person"
    ELSE IF Contains(label, "Phone") \/ Contains(label, "Laptop") THEN "digital"
    ELSE "general"

\* CHECK 1: the label would go off the top edge
OffTop(y1, text_h) == y1 - text_h - 10 < 0

\* CHECK 2: the label would go off the right edge
OffRightNever(x1, text_w, img_w) == FALSE
OffRight(x1, text_w, img_w) == x1 + text_w + 10 > img_w

\* the boundary-aware label: its background rectangle and its text origin
LabelPlacementShiftBoth(x1, y1, text_w, text_h, img_w) ==
    LET flip == OffTop(y1, text_h)
        shift_amount == IF OffRight(x1, text_w, img_w)
                        THEN (x1 + text_w + 10) - img_w ELSE 0
    IN  [ bg_x1 |-> x1 - shift_amount,
          bg_y1 |-> (IF flip THEN y1 ELSE y1 - text_h - 10) - shift_amount,
          bg_x2 |-> x1 + text_w + 10 - shift_amount,
          bg_y2 |-> (IF flip THEN y1 + text_h + 10 ELSE y1) - shift_amount,
          text_x |-> x1 + 5 - shift_amount,
          text_y |-> (IF flip THEN y1 + text_h + 5 ELSE y1 - 5) - shift_amount,
          flipped |-> flip,
          shifted |-> OffRight(x1, text_w, img_w) ]
LabelPlacement(x1, y1, text_w, text_h, img_w) ==
    LET flip == OffTop(y1, text_h)
        shift_amount == IF OffRight(x1, text_w, img_w)
                        THEN (x1 + text_w + 10) - img_w ELSE 0
    IN  [ bg_x1 |-> x1 - shift_amount,
          bg_y1 |-> IF flip THEN y1 ELSE y1 - text_h - 10,
          bg_x2 |-> x1 + text_w + 10 - shift_amount,
          bg_y2 |-> IF flip THEN y1 + text_h + 10 ELSE y1,
          text_x |-> x1 + 5 - shift_amount,
          text_y |-> IF flip THEN y1 + text_h + 5 ELSE y1 - 5,
          flipped |-> flip,
          shifted |-> OffRight(x1, text_w, img_w) ]

\* what is drawn for an item: its box, then its label background and text
Drawing(item, img_w, img_h, f) ==
    LET c == Clamp(item.Box, img_w, img_h)
        lbl == item.Label \o " " \o PercentText(item.Conf)
        ts == getTextSize(lbl, f)
    IN  [ rect |-> c,
          color |-> Color(item.Label),
          lbl |-> lbl,
          text_w |-> ts.text_w,
          text_h |-> ts.text_h,
          label |-> LabelPlacement(c[1], c[2], ts.text_w, ts.text_h, img_w) ]

RECURSIVE CsvDataDrawnOnly(_, _, _, _)
CsvDataDrawnOnly(master_log, base_name, img_w, img_h) ==
    IF master_log = <<>> THEN <<>>
    ELSE (IF AboveCutoff(Head(master_log).Conf)
          THEN <<CsvRow(Head(master_log), base_name, img_w, img_h)>>
          ELSE <<>>)
         \o CsvDataDrawnOnly(Tail(master_log), base_name, img_w, img_h)

RECURSIVE CsvData(_, _, _, _)
CsvData(master_log, base_name, img_w, img_h) ==
    IF master_log = <<>> THEN <<>>
    ELSE <<CsvRow(Head(master_log), base_name, img_w, img_h)>>
         \o CsvData(Tail(master_log), base_name, img_w, img_h)

\* the drawings on annotated_img, tagged with the index of their csv_data row
RECURSIVE Drawings(_, _, _, _, _)
Drawings(master_log, k, img_w, img_h, f) ==
    IF master_log = <<>> THEN <<>>
    ELSE (IF AboveCutoff(Head(master_log).Conf)
          THEN <<[row |-> k] @@ Drawing(Head(master_log), img_w, img_h, f)>>
          ELSE <<>>)
         \o Drawings(Tail(master_log), k + 1, img_w, img_h, f)

\* df.sort_values(by="Confidence_Score", ascending=False): rows of equal
\* confidence keep their order
RECURSIVE InsertByConf(_, _)
InsertByConf(row, sorted) ==
    IF sorted = <<>> THEN <<row>>
    ELSE IF Head(sorted).Confidence_Score >= row.Confidence_Score
         THEN <<Head(sorted)>> \o InsertByConf(row, Tail(sorted))
         ELSE <<row>> \o sorted

RECURSIVE SortByConf(_)
SortByConf(rows) ==
    IF rows = <<>> THEN <<>>
    ELSE InsertByConf(rows[Len(rows)], SortByConf(SubSeq(rows, 1, Len(rows) - 1)))

(***************************************************************************)
(* _analyze_image.  An image file's content is [kind |-> "image", pixels,  *)
(* img_w, img_h, res_std, res_cust]: res_std and res_cust are what the two *)
(* models' predict returns on it.  The result is the value returned and    *)
(* the file system after the report and the annotated image are written.   *)
(***************************************************************************)
ReportName(base_name) == FileName(base_name \o "_FULL_REPORT", ".csv")
VisualName(base_name) == FileName(base_name \o "_ANALYSIS", ".jpg")

Write(files, p, content) == (p :> content) @@ files

AnalyzeImage(det, image_path, csv_dir, visuals_dir, files, f) ==
    LET image == imread(image_path, files)
    IN  IF image = None THEN [ret |-> None, fs |-> files]
        ELSE
        LET base_name == BaseName(image_path)
            master_log == PassStandard(image.res_std)
                          \o PassCustom(det.model_custom, image.res_cust)
            csv_data == CsvData(master_log, base_name, image.img_w, image.img_h)
            annotated_img ==
                [ kind |-> "annotated",
                  channels |-> "BGR",
                  pixels |-> image.pixels,
                  img_w |-> image.img_w,
                  img_h |-> image.img_h,
                  draws |-> Drawings(master_log, 1, image.img_w, image.img_h, f) ]
            saved == IF csv_data # <<>>
                     THEN Write(files, join(csv_dir, ReportName(base_name)),
                                [kind |-> "csv", rows |-> SortByConf(csv_data)])
                     ELSE files
        IN  [ ret |-> [ kind |-> "result",
                        annotated_img |-> annotated_img,
                        csv_data |-> csv_data ],
              fs |-> Write(saved, join(visuals_dir, VisualName(base_name)), annotated_img) ]

(***************************************************************************)
(* Bounded inputs.                                                         *)
(***************************************************************************)
MaxStd == 2     \* detections the standard model returns for the scene
MaxCust == 1    \* detections the custom model returns for the scene

SeqsUpTo(S, n) == UNION { [1..k -> S] : k \in 0..n }

\* confidences below, at and above the visual cutoff
Confs == {10, VISUAL_CUTOFF, VISUAL_CUTOFF + 1}

\* COCO ids: Person, Bicycle (no target), Knife
StdIds == {0, 1, 43}
\* custom ids: Gun, Blood Stain, and one the detector has no name for
CustIds == {0, 1, 2}

Junk == [kind |-> "junk"]
Folder == [kind |-> "dir"]
Weights == [kind |-> "weights"]

STANDARD_WEIGHTS == Dir("yolov8l.pt")
CUSTOM_WEIGHTS == join(join(Dir("Custom_Model"), FileName("weights", "")), FileName("best", ".pt"))

Picture(pixels, w, h, S, C) ==
    [kind |-> "image", pixels |-> pixels, img_w |-> w, img_h |-> h, res_std |-> S, res_cust |-> C]

\* the directories of the config module, which exist before anything runs
BaseFiles ==
    (OUTPUT_DIR :> Folder) @@ (INPUT_DIR :> Folder) @@ (CSV_DIR :> Folder)
    @@ (VISUALS_DIR :> Folder) @@ (STANDARD_WEIGHTS :> Weights)

WithWeights(files, present) ==
    IF present THEN (CUSTOM_WEIGHTS :> Weights) @@ files ELSE files

ScenePath == join(Dir("crime_scenes"), FileName("scene_1", ".png"))

SceneBox == <<21, 41, 121, 161>>

Scenes ==
    { Picture("A", 100, 100, S, C) :
        S \in SeqsUpTo([cls : StdIds, conf : Confs, xyxy : {SceneBox}], MaxStd),
        C \in SeqsUpTo([cls : CustIds, conf : Confs, xyxy : {SceneBox}], MaxCust) }
    \cup {Junk}

Hershey == [char_w |-> 2, text_h |-> 4]

(***************************************************************************)
(* The detector driven as a script: construct it, then analyse one path.   *)
(***************************************************************************)
Init ==
    /\ \E present \in BOOLEAN, scene \in Scenes :
          fs = WithWeights((ScenePath :> scene) @@ (Dir("crime_scenes") :> Folder)
                           @@ BaseFiles, present)
    /\ detector = None
    /\ font = Hershey
    /\ pc = "start"
    /\ arg = None
    /\ ret = None
    /\ calls = <<>>
    /\ uploaded_file = None
    /\ session_state = None

Construct ==
    /\ pc = "start"
    /\ detector' = NewDetector(CUSTOM_WEIGHTS, fs)
    /\ pc' = "ready"
    /\ UNCHANGED <<fs, font, arg, ret, calls, uploaded_file, session_state>>

AnalyzeCall ==
    /\ pc = "ready"
    /\ \E image_path \in {ScenePath, Dir("crime_scenes")} :
          LET r == AnalyzeImage(detector, image_path, CSV_DIR, VISUALS_DIR, fs, font)
          IN  /\ arg' = image_path
              /\ ret' = r.ret
              /\ fs' = r.fs
              /\ calls' = Append(calls, [image_path |-> image_path,
                                          analysed |-> r.ret # None])
    /\ pc' = "done"
    /\ UNCHANGED <<detector, font, uploaded_file, session_state>>

Next == Construct \/ AnalyzeCall

Spec == Init /\ [][Next]_vars

(***************************************************************************)
(* Claims about one _analyze_image call (specification Spec).              *)
(***************************************************************************)
Scene == fs[ScenePath]
Analysed == pc = "done" /\ arg = ScenePath /\ ret.kind = "result"

\* what the custom model returned: nothing when no custom model is loaded
CustomReturned == IF detector.model_custom THEN Scene.res_cust ELSE <<>>

StdTargets(S) == { i \in 1..Len(S) : S[i].cls \in DOMAIN std_classes }
CustTargets(C) == { i \in 1..Len(C) : C[i].cls \in {0, 1} }
RankIn(T, i) == Cardinality({ j \in T : j <= i })

ReportPath == join(CSV_DIR, FileName("scene_1_FULL_REPORT", ".csv"))
VisualPath == join(VISUALS_DIR, FileName("scene_1_ANALYSIS", ".jpg"))

RowsAt(rows, source, conf) ==
    Cardinality({ k \in 1..Len(rows) :
                    rows[k].Model_Source = source /\ rows[k].Confidence_Score = conf })
DetectionsAt(D, T, conf) == Cardinality({ i \in T : D[i].conf = conf })

\* C2 as stated: every detection either model returns has its row, so there
\* are as many rows as detections.
C2_EveryDetectionLogged ==
    Analysed => Len(ret.csv_data) = Len(Scene.res_std) + Len(CustomReturned)

\* C2 amended: every detection of a target class has its row in csv_data and
\* in the written report whatever its confidence: at each confidence, at or
\* below the cutoff too, there are as many rows as target detections.
C2_TargetDetectionsLoggedAtAnyConfidence ==
    Analysed =>
        \A conf \in Confs :
            LET nStd == DetectionsAt(Scene.res_std, StdTargets(Scene.res_std), conf)
                nCust == DetectionsAt(CustomReturned, CustTargets(CustomReturned), conf)
            IN  /\ RowsAt(ret.csv_data, "Standard_Model", conf) = nStd
                /\ RowsAt(ret.csv_data, "Custom_Model", conf) = nCust
                /\ (nStd + nCust > 0) =>
                      /\ ReportPath \in DOMAIN fs
                      /\ RowsAt(fs[ReportPath].rows, "Standard_Model", conf) = nStd
                      /\ RowsAt(fs[ReportPath].rows, "Custom_Model", conf) = nCust

C2_Witness ==
    /\ Analysed
    /\ \E k \in 1..Len(ret.csv_data) : ret.csv_data[k].Confidence_Score < 3000
    /\ \E k \in 1..Len(fs[ReportPath].rows) : fs[ReportPath].rows[k].Confidence_Score = 3000

IsDrawn(k) ==
    \E d \in 1..Len(ret.annotated_img.draws) : ret.annotated_img.draws[d].row = k

C5_StandardPassOnlyWithoutCustomWeights ==
    (pc # "start" /\ CUSTOM_WEIGHTS \notin DOMAIN fs) =>
        /\ detector.kind = "detector"
        /\ ~detector.model_custom
        /\ Analysed =>
              LET rows == ret.csv_data
                  T == StdTargets(Scene.res_std)
              IN  /\ \A k \in 1..Len(rows) :
                        /\ rows[k].Model_Source # "Custom_Model"
                        /\ rows[k].Evidence_Type \notin {"Gun", "Blood Stain"}
                  /\ Len(rows) = Cardinality(T)
                  /\ \A i \in T :
                        Scene.res_std[i].conf > 3000 => IsDrawn(RankIn(T, i))
                  /\ T # {} => ReportPath \in DOMAIN fs /\ Len(fs[ReportPath].rows) = Len(rows)
                  /\ VisualPath \in DOMAIN fs /\ fs[VisualPath] = ret.annotated_img

C5_Witness ==
    /\ Analysed
    /\ CUSTOM_WEIGHTS \notin DOMAIN fs
    /\ \E i \in 1..Len(Scene.res_cust) : Scene.res_cust[i].cls = 0
    /\ \E k \in 1..Len(ret.csv_data) : IsDrawn(k)

(***************************************************************************)
(* One detection anywhere in or around images of several sizes, under      *)
(* several fonts: the inputs of the clamp and of the label placement.      *)
(***************************************************************************)
MaxK == 6       \* model coordinates run from -7 to 7 * MaxK half pixels

RawCoords == { 7 * k : k \in -1..MaxK }
ImgSizes == {12, 40}
Fonts == [char_w : {1, 2}, text_h : {2, 6}]

LabelScenes ==
    { Picture("A", w, h, << [cls |-> c, conf |-> conf, xyxy |-> <<x, y, x + dx, y + dy>>] >>, <<>>) :
        w \in ImgSizes, h \in ImgSizes, c \in {0, 43},
        conf \in {VISUAL_CUTOFF, VISUAL_CUTOFF + 1},
        x \in RawCoords, y \in RawCoords, dx \in {0, 14}, dy \in {0, 14} }

InitLabel ==
    /\ \E scene \in LabelScenes :
          fs = (ScenePath :> scene) @@ (Dir("crime_scenes") :> Folder) @@ BaseFiles
    /\ detector = None
    /\ font \in Fonts
    /\ pc = "start"
    /\ arg = None
    /\ ret = None
    /\ calls = <<>>
    /\ uploaded_file = None
    /\ session_state = None

SpecLabel == InitLabel /\ [][Next]_vars

Draws == ret.annotated_img.draws
ImgW == ret.annotated_img.img_w
ImgH == ret.annotated_img.img_h

\* C4: a drawn label sits above its box, background from y1 - text_h - 10 to
\* y1 and baseline at y1 - 5, unless y1 - text_h - 10 < 0, and then just
\* below the box's top line, background from y1 to y1 + text_h + 10 and
\* baseline at y1 + text_h + 5; a shift at the right edge moves only the
\* horizontal coordinates.
C4_LabelAboveUnlessOffTop ==
    Analysed =>
        \A d \in 1..Len(Draws) :
            LET y1 == Draws[d].rect[2]
                x1 == Draws[d].rect[1]
                text_h == Draws[d].text_h
                l == Draws[d].label
            IN  /\ (y1 - text_h - 10 >= 0) =>
                      l.bg_y1 = y1 - text_h - 10 /\ l.bg_y2 = y1 /\ l.text_y = y1 - 5
                /\ (y1 - text_h - 10 < 0) =>
                      l.bg_y1 = y1 /\ l.bg_y2 = y1 + text_h + 10 /\ l.text_y = y1 + text_h + 5

C4_Witness ==
    /\ Analysed
    /\ \E d \in 1..Len(Draws) :
          /\ Draws[d].rect[2] - Draws[d].text_h - 10 < 0
          /\ Draws[d].rect[1] + Draws[d].text_w + 10 > ImgW
          /\ Draws[d].label.bg_y1 = Draws[d].rect[2]

\* C7: every drawn label lies entirely inside the image: background and text
\* origin within 0..img_w by 0..img_h.
C7_LabelInsideImage ==
    Analysed =>
        \A d \in 1..Len(Draws) :
            LET l == Draws[d].label
            IN  /\ 0 <= l.bg_x1 /\ l.bg_x1 <= l.bg_x2 /\ l.bg_x2 <= ImgW
                /\ 0 <= l.bg_y1 /\ l.bg_y1 <= l.bg_y2 /\ l.bg_y2 <= ImgH
                /\ 0 <= l.text_x /\ l.text_x <= ImgW
                /\ 0 <= l.text_y /\ l.text_y <= ImgH

\* C8: a drawn label's background never crosses the top edge (bg_y1 >= 0)
\* nor the right edge (bg_x2 <= img_w); when shifted at the right edge it
\* ends at img_w exactly and keeps the width text_w + 10.
C8_LabelWithinTopAndRightEdges ==
    Analysed =>
        \A d \in 1..Len(Draws) :
            LET l == Draws[d].label
                x1 == Draws[d].rect[1]
            IN  /\ l.bg_y1 >= 0
                /\ l.bg_x2 <= ImgW
                /\ l.bg_x2 - l.bg_x1 = Draws[d].text_w + 10
                /\ (x1 + Draws[d].text_w + 10 > ImgW) => l.bg_x2 = ImgW

C8_Witness ==
    /\ Analysed
    /\ \E d \in 1..Len(Draws) :
          /\ Draws[d].rect[1] + Draws[d].text_w + 10 > ImgW
          /\ Draws[d].label.bg_x2 = ImgW
          /\ Scene.res_std[1].xyxy[2] < 0
          /\ Draws[d].label.bg_y1 = 0

\* C9: the Coords of every csv_data row, and the box drawn from them, lie
\* within the image: 0 <= x1, x2 <= img_w and 0 <= y1, y2 <= img_h.
C9_CoordsWithinImage ==
    Analysed =>
        /\ \A k \in 1..Len(ret.csv_data) :
              LET c == ret.csv_data[k].Coords
              IN  /\ 0 <= c[1] /\ c[1] <= ImgW /\ 0 <= c[3] /\ c[3] <= ImgW
                  /\ 0 <= c[2] /\ c[2] <= ImgH /\ 0 <= c[4] /\ c[4] <= ImgH
        /\ \A d \in 1..Len(Draws) : Draws[d].rect = ret.csv_data[Draws[d].row].Coords

(***************************************************************************)
(* process_directory.                                                      *)
(***************************************************************************)
\* os.makedirs(d, exist_ok=True)
makedirs(files, d) == IF d \in DOMAIN files THEN files ELSE (d :> Folder) @@ files

\* for img_path in image_files: self._analyze_image(img_path, csv_dir, visuals_dir)
RECURSIVE AnalyzeAll(_, _, _, _, _, _)
AnalyzeAll(det, image_files, csv_dir, visuals_dir, files, f) ==
    IF image_files = <<>> THEN [fs |-> files, calls |-> <<>>]
    ELSE LET r == AnalyzeImage(det, Head(image_files), csv_dir, visuals_dir, files, f)
             rest == AnalyzeAll(det, Tail(image_files), csv_dir, visuals_dir, r.fs, f)
         IN  [ fs |-> rest.fs,
               calls |-> << [image_path |-> Head(image_files),
                             analysed |-> r.ret # None] >> \o rest.calls ]

process_directory(det, input_dir_arg, output_root, files, f) ==
    LET csv_dir == join(output_root, FileName("evidence_logs", ""))
        visuals_dir == join(output_root, FileName("visuals", ""))
        input_dir == join(output_root, FileName("input", ""))
        made == makedirs(makedirs(makedirs(makedirs(files, output_root), csv_dir),
                                  visuals_dir), input_dir)
        image_files == glob(input_dir, made)
    IN  AnalyzeAll(det, image_files, csv_dir, visuals_dir, made, f)

\* what a caller's directory may hold
DirPictures ==
    { Picture(px, 100, 100, S, C) :
        px \in {"A"},
        S \in { <<>>, <<[cls |-> 43, conf |-> 3001, xyxy |-> SceneBox]>>,
                <<[cls |-> 0, conf |-> 10, xyxy |-> SceneBox]>> },
        C \in { <<>>, <<[cls |-> 0, conf |-> 3001, xyxy |-> SceneBox]>> } }

Absent == [kind |-> "absent"]

Scene2Path == join(Dir("crime_scenes"), FileName("scene_2", ".jpg"))
EarlierUpload == join(INPUT_DIR, FileName("upload", ".png"))

\* a file system from a choice of contents, Absent leaving the path out
Populate(choice, files) ==
    LET there == { p \in DOMAIN choice : choice[p] # Absent }
    IN  [ p \in there \cup DOMAIN files |-> IF p \in there THEN choice[p] ELSE files[p] ]

InitDir ==
    /\ \E present \in BOOLEAN,
          choice \in [ {ScenePath, Scene2Path, EarlierUpload}
                       -> DirPictures \cup {Junk, Absent} ] :
          fs = WithWeights(Populate(choice, (Dir("crime_scenes") :> Folder) @@ BaseFiles),
                           present)
    /\ detector = None
    /\ font = Hershey
    /\ pc = "start"
    /\ arg = None
    /\ ret = None
    /\ calls = <<>>
    /\ uploaded_file = None
    /\ session_state = None

ProcessDirectory ==
    /\ pc = "ready"
    /\ \E input_dir \in {Dir("crime_scenes")}, output_root \in {OUTPUT_DIR, Dir("results")} :
          LET r == process_directory(detector, input_dir, output_root, fs, font)
          IN  /\ arg' = [input_dir |-> input_dir, output_root |-> output_root]
              /\ fs' = r.fs
              /\ calls' = calls \o r.calls
    /\ pc' = "done"
    /\ UNCHANGED <<detector, font, ret, uploaded_file, session_state>>

NextDir == Construct \/ ProcessDirectory

SpecDir == InitDir /\ [][NextDir]_vars

\* the image files a directory holds
ImagesIn(d, files) ==
    { p \in DOMAIN files : p.dir = d.dir \o <<d.stem \o d.ext>> /\ files[p].kind = "image" }

TimesAnalysed(p) ==
    Cardinality({ k \in 1..Len(calls) : calls[k].image_path = p /\ calls[k].analysed })

\* C10: process_directory(input_dir, output_root) analyses every image file
\* of the caller's input_dir exactly once and writes its annotated image
\* under output_root/visuals (and its report under output_root/evidence_logs).
C10_EveryImageOfInputDirAnalysedOnce ==
    pc = "done" =>
        \A p \in ImagesIn(arg.input_dir, fs) :
            /\ TimesAnalysed(p) = 1
            /\ join(join(arg.output_root, FileName("visuals", "")),
                    FileName(p.stem \o "_ANALYSIS", ".jpg")) \in DOMAIN fs

(***************************************************************************)
(* The page (ui.py, main).  Streamlit runs main() again after every        *)
(* interaction; an action below is one interaction and the run it causes.  *)
(* What a run shows is a function of the uploader and the session state.   *)
(***************************************************************************)
HIGH_CONF == 3000

\* str.contains('Gun|Knife', case=False) on an Evidence_Type
IsWeaponGunOnly(label) == Contains(label, "Gun")
IsWeapon(label) == Contains(label, "Gun") \/ Contains(label, "Knife")

\* cv2.cvtColor(annotated_img, cv2.COLOR_BGR2RGB)
cvtColor(img) == [img EXCEPT !.channels = "RGB"]

\* Image.open(uploaded_file) succeeds
Opens(file) == file.content.kind = "image"

\* df[df['Confidence_Score'] > 0.30], df being csv_data sorted by confidence
HighConf(csv_data) ==
    SelectSeq(SortByConf(csv_data), LAMBDA row : row.Confidence_Score > HIGH_CONF)

\* len(high_conf_df[high_conf_df['Evidence_Type'].str.contains('Gun|Knife', ...)])
CountWeapons(rows) == Cardinality({ k \in 1..Len(rows) : IsWeapon(rows[k].Evidence_Type) })

\* len(high_conf_df[high_conf_df['Evidence_Type'] == 'Person'])
CountPersons(rows) == Cardinality({ k \in 1..Len(rows) : rows[k].Evidence_Type = "Person" })

\* the EVIDENCE SUMMARY section
Summary(csv_data) ==
    IF csv_data = <<>> THEN [kind |-> "no_evidence"]
    ELSE LET high_conf_df == HighConf(csv_data)
         IN  IF high_conf_df = <<>> THEN [kind |-> "no_high_confidence"]
             ELSE LET weapons == CountWeapons(high_conf_df)
                  IN  [ kind |-> "metrics",
                        total_evidence |-> Len(high_conf_df),
                        weapons |-> weapons,
                        weapons_delta |-> IF weapons > 0 THEN "Critical" ELSE "None",
                        persons |-> CountPersons(high_conf_df),
                        table |-> high_conf_df ]

\* what a run of main() shows
View ==
    IF uploaded_file = None THEN [page |-> "how_to_use"]
    ELSE IF ~Opens(uploaded_file) THEN [page |-> "exception"]
    ELSE [ page |-> "review",
           original |-> uploaded_file.content.pixels,
           results |-> IF session_state # None
                       THEN [ kind |-> "results",
                              annotated_img |-> session_state.annotated_img,
                              summary |-> Summary(session_state.csv_data) ]
                       ELSE None ]

\* with open(img_path, "wb") as f: f.write(uploaded_file.getbuffer())
SaveUpload(files, file) ==
    IF Opens(file) THEN Write(files, join(INPUT_DIR, file.name), file.content) ELSE files

MaxUIDet == 1   \* detections each model returns for the first picture

UIScenes ==
    { Picture("A", 100, 100, S, C) :
        S \in SeqsUpTo([cls : {0, 43}, conf : {HIGH_CONF, HIGH_CONF + 1}, xyxy : {SceneBox}],
                       MaxUIDet),
        C \in SeqsUpTo([cls : {0, 1}, conf : {HIGH_CONF, HIGH_CONF + 1}, xyxy : {SceneBox}],
                       MaxUIDet) }
    \cup {Junk}

PictureB == Picture("B", 100, 100, <<[cls |-> 0, conf |-> 9000, xyxy |-> SceneBox]>>, <<>>)

UserA == join(Dir("user"), FileName("a", ".png"))
UserB == join(Dir("user"), FileName("b", ".jpg"))

InitUI ==
    /\ \E present \in BOOLEAN, a \in UIScenes :
          fs = WithWeights((UserA :> a) @@ (UserB :> PictureB) @@ (Dir("user") :> Folder)
                           @@ BaseFiles, present)
    /\ detector = None
    /\ font = Hershey
    /\ pc = "page"
    /\ arg = None
    /\ ret = None
    /\ calls = <<>>
    /\ uploaded_file = None
    /\ session_state = None

\* the user picks a file in the uploader
Upload ==
    /\ pc = "page"
    /\ \E p \in {UserA, UserB} :
          LET file == [kind |-> "upload", name |-> FileName(p.stem, p.ext), content |-> fs[p]]
          IN  /\ uploaded_file' = file
              /\ fs' = SaveUpload(fs, file)
    /\ UNCHANGED <<detector, font, pc, arg, ret, calls, session_state>>

RemoveUploadClearing ==
    /\ pc = "page"
    /\ uploaded_file # None
    /\ uploaded_file' = None
    /\ session_state' = None
    /\ UNCHANGED <<fs, detector, font, pc, arg, ret, calls>>

\* the user clears the uploader
RemoveUpload ==
    /\ pc = "page"
    /\ uploaded_file # None
    /\ uploaded_file' = None
    /\ UNCHANGED <<fs, detector, font, pc, arg, ret, calls, session_state>>

\* the user presses ANALYZE EVIDENCE, which is there once the upload opened
PressAnalyze ==
    /\ pc = "page"
    /\ uploaded_file # None
    /\ Opens(uploaded_file)
    /\ LET img_path == join(INPUT_DIR, uploaded_file.name)
           saved == SaveUpload(fs, uploaded_file)
           det == NewDetector(CUSTOM_WEIGHTS, saved)
           r == AnalyzeImage(det, img_path, CSV_DIR, VISUALS_DIR, saved, font)
       IN  /\ detector' = det
           /\ arg' = img_path
           /\ ret' = r.ret
           /\ fs' = r.fs
           /\ session_state' =
                 IF r.ret = None THEN session_state
                 ELSE [ kind |-> "session",
                        annotated_img |-> cvtColor(r.ret.annotated_img),
                        csv_data |-> r.ret.csv_data ]
    /\ UNCHANGED <<font, pc, calls, uploaded_file>>

NextUI == Upload \/ RemoveUpload \/ PressAnalyze

SpecUI == InitUI /\ [][NextUI]_vars

StoredWeapons(floor) ==
    { k \in 1..Len(session_state.csv_data) :
        /\ session_state.csv_data[k].Evidence_Type \in {"Gun", "Knife"}
        /\ session_state.csv_data[k].Confidence_Score > floor }

CriticalShown ==
    /\ View.page = "review"
    /\ View.results # None
    /\ View.results.summary.kind = "metrics"
    /\ View.results.summary.weapons > 0
    /\ View.results.summary.weapons_delta = "Critical"

ShowsLastAnalysis ==
    /\ View.page = "review"
    /\ View.results # None
    /\ View.results.annotated_img.pixels = ret.annotated_img.pixels
    /\ View.results.annotated_img.draws = ret.annotated_img.draws
    /\ View.results.summary = Summary(ret.csv_data)

\* once an analysis has completed its result is stored, whatever is in the
\* uploader: shown beside the upload that opens, hidden while there is none
StoredResultsOutliveUpload ==
    ret.kind = "result" =>
        /\ session_state # None
        /\ session_state.csv_data = ret.csv_data
        /\ (uploaded_file # None /\ Opens(uploaded_file)) => ShowsLastAnalysis
        /\ uploaded_file = None => View.page = "how_to_use"

\* a step that changes the stored results is an analysis of the current
\* upload that completed, and no step clears them
StoredResultsChangeOnlyByAnalysis ==
    session_state' # session_state =>
        /\ uploaded_file' = uploaded_file
        /\ uploaded_file # None
        /\ arg' = join(INPUT_DIR, uploaded_file.name)
        /\ ret'.kind = "result"
        /\ session_state' # None
        /\ session_state'.csv_data = ret'.csv_data

\* C11: the results an analysis stores persist across runs and are not tied
\* to the uploaded file: with another image in the uploader the page shows
\* the analysed image's annotation and summary beside the new original; the
\* stored results change only when a later analysis completes; with no file
\* uploaded they are hidden, not cleared, and are shown again with the next
\* upload.
C11_StoredResultsPersistAcrossReruns ==
    [](StoredResultsOutliveUpload) /\ [][StoredResultsChangeOnlyByAnalysis]_vars

C11_Witness ==
    /\ uploaded_file # None
    /\ Opens(uploaded_file)
    /\ uploaded_file.content.pixels = "B"
    /\ session_state # None
    /\ session_state.annotated_img.pixels = "A"
    /\ session_state.csv_data # <<>>
    /\ View.original = "B"
    /\ View.results.annotated_img.pixels = "A"
    /\ View.results.summary = Summary(fs[join(CSV_DIR, ReportName("a"))].rows)

====
